---- MODULE Spec2Model ----
(***************************************************************************)
(* Model of app.py, the Streamlit dashboard "Malaysia Cost of Living":     *)
(* the cached loader load_data, the session state, refresh_data and one    *)
(* script run (sidebar, filter, latest row, cross-state ranking).          *)
(*                                                                         *)
(* Values.  A nullable value is a sequence of length 0 (None / NaN) or 1.  *)
(* Dates are month ordinals.  A row of the table is a record               *)
(*   [state, date, division, index, inflation_yoy].                        *)
(***************************************************************************)
EXTENDS Integers, Sequences, FiniteSets

VARIABLES
    csv,            \* the CSV the remote URL currently serves (its description)
    now,            \* wall clock, seconds
    cache,          \* st.cache_data entries of load_data, keyed by force_refresh
    df,             \* st.session_state.df: None or <<table>>
    last_refresh,   \* st.session_state.last_refresh: unset or <<time>>
    event,          \* the last script run: "none", "first", "rerun", "click"
    fetch,          \* the response to the last step's requests.get, "none" if it issued none
    page            \* what the last script run rendered

vars == <<csv, now, cache, df, last_refresh, event, fetch, page>>

---------------------------------------------------------------------------
\* Program constants and bounds

Periods == 12
TTL == 300
MaxRows == 14
MaxTicks == 3

None == <<>>
Some(x) == <<x>>
IsNull(x) == x = <<>>

\* The state names, in alphabetical order (the order of sorted() and of sort_values)
StateNames == <<"Johor", "Kedah">>
States == {StateNames[i] : i \in DOMAIN StateNames}
StateRank(s) == CHOOSE i \in DOMAIN StateNames : StateNames[i] = s
NameLess(a, b) == StateRank(a) < StateRank(b)

Range(s) == {s[i] : i \in DOMAIN s}

---------------------------------------------------------------------------
\* The remote CSV: the inputs the fetch can return

\* CPI index values; every ratio of two of them is 1/4, 1/2, 1, 2 or 4, so the
\* percentage change below is an exact integer.
IndexCycle == <<50, 100, 200, 100, 50>>

IndexOf(pat, i) ==
    IF pat = "flat" THEN 100 ELSE IndexCycle[((i - 1) % Len(IndexCycle)) + 1]

\* the date of the i-th observation of a state: monthly, one month missing
\* after the first observation when gap holds
DateOf(gap, i) == IF gap /\ i > 1 THEN i + 1 ELSE i

MaxDate == MaxRows + 1

RawRows(s, n, pat, gap, div, scale) ==
    [i \in 1..n |-> [state |-> s, date |-> DateOf(gap, i), division |-> div,
                     index |-> scale * IndexOf(pat, i)]]

Reverse(s) == [i \in 1..Len(s) |-> s[Len(s) + 1 - i]]

\* A description of a CSV file: rows of the two states (n1, n2 observations),
\* optionally with rows of another division, optionally in descending order.
RawCsv(c) ==
    LET overall == RawRows(StateNames[1], c.n1, c.pat1, c.gap, "overall", 1)
                   \o RawRows(StateNames[2], c.n2, c.pat2, FALSE, "overall", 1)
        food    == RawRows(StateNames[1], c.n1, "flat", c.gap, "food", 4)
    IN  IF c.shuffled THEN Reverse(overall \o food) ELSE overall

Patterns == {"flat", "cycle"}
RowCounts == Periods..MaxRows

AllCsvs ==
    [n1 : RowCounts, n2 : {0} \cup RowCounts, pat1 : Patterns, pat2 : Patterns,
     gap : BOOLEAN, shuffled : BOOLEAN]

SessionCsvs ==
    {c \in AllCsvs : /\ c.n1 = Periods + 1 /\ c.n2 \in {0, Periods + 1}
                     /\ c.pat1 = "cycle" /\ c.pat2 = "flat"
                     /\ ~c.gap /\ c.shuffled}

---------------------------------------------------------------------------
\* load_data, the function body (lines 34-52)

\* The one element of a one-element set; {e(x) : x \in {v}} binds x to the
\* value v, which is then computed once however often e uses it.
The(S) == CHOOSE x \in S : TRUE

\* pandas' stable sort of a sequence, lt[i, j] telling whether row i is less
\* than row j: a row goes after the rows that are less and after the equal rows
\* that precede it
StableSort(s, lt) ==
    The({[p \in DOMAIN s |-> s[CHOOSE i \in DOMAIN s : pos[i] = p]] :
            pos \in {[i \in DOMAIN s |->
                        Cardinality({j \in DOMAIN s :
                            lt[j, i] \/ (~lt[i, j] /\ j < i)}) + 1]}})

LessStateDate(a, b) ==
    NameLess(a.state, b.state) \/ (a.state = b.state /\ a.date < b.date)

\* df[df['division'] == 'overall']
OverallOnly(rows) == SelectSeq(rows, LAMBDA r : r.division = "overall")

\* sort_values('state') alone: the dates are left in the file's order
SortStateOnly(rows) ==
    The({StableSort(rows, lt) :
            lt \in {[i \in DOMAIN rows, j \in DOMAIN rows |->
                        NameLess(rows[i].state, rows[j].state)]}})

\* df.sort_values(['state', 'date'])
SortStateDate(rows) ==
    The({StableSort(rows, lt) :
            lt \in {[i \in DOMAIN rows, j \in DOMAIN rows |->
                        LessStateDate(rows[i], rows[j])]}})

\* (cur / prev - 1) * 100
Pct(cur, prev) == ((cur - prev) * 100) \div prev

\* the number of rows of row k's group (its state) that come before row k
GroupRank(rows) ==
    [k \in DOMAIN rows |->
        Cardinality({j \in 1..(k - 1) : rows[j].state = rows[k].state})]

\* df['index'].pct_change(12) without the groupby: 12 rows earlier in the frame
PctChangeUngrouped(rows) ==
    [k \in DOMAIN rows |->
        IF k <= Periods THEN None
        ELSE Some(Pct(rows[k].index, rows[k - Periods].index))]

\* df.groupby('state')['index'].pct_change(12) * 100: the change against the
\* row `Periods` rows earlier in the same group, null when there is none
PctChange(rows) ==
    The({[k \in DOMAIN rows |->
            IF rank[k] < Periods THEN None
            ELSE Some(Pct(rows[k].index,
                          rows[CHOOSE j \in 1..(k - 1) :
                                  /\ rows[j].state = rows[k].state
                                  /\ rank[j] = rank[k] - Periods].index))] :
            rank \in {GroupRank(rows)}})

\* df['inflation_yoy'] = ...
WithInflation(rows) ==
    The({[k \in DOMAIN rows |->
            [state |-> rows[k].state, date |-> rows[k].date,
             division |-> rows[k].division, index |-> rows[k].index,
             inflation_yoy |-> yoy[k]]] :
            yoy \in {PctChange(rows)}})

Responses == {"ok", "http_error", "timeout"}

\* the body of load_data on a response of the server (lines 37-52): the value
\* returned and whether st.error was called
LoadBody(resp, raw) ==
    IF resp = "ok"
    THEN [value |-> Some(WithInflation(SortStateDate(OverallOnly(raw)))),
          error |-> FALSE]
    ELSE [value |-> None, error |-> TRUE]

---------------------------------------------------------------------------
\* load_data, the st.cache_data wrapper (line 32)

EmptyCache == [k \in BOOLEAN |-> None]

\* an entry is served while it is younger than the ttl
CacheHit(c, key, t) == c[key] # None /\ t < c[key][1].at + TTL

\* load_data(force_refresh=force).  The wrapper looks the argument up first and
\* runs the body only on a miss; a hit returns the stored value and replays the
\* stored st.error.  On a miss the body clears every entry when force holds
\* (line 35) and fetches, and the wrapper then stores what the body returned.
\* `kept` is whether that store survives a clear made inside the body: the
\* st.cache_data API does not say, so a forced call takes both outcomes.
LoadData(c, t, force, resp, raw, kept) ==
    IF CacheHit(c, force, t)
    THEN [value |-> c[force][1].value, error |-> c[force][1].error,
          cache |-> c, fetch |-> "none"]
    ELSE LET body    == LoadBody(resp, raw)
             cleared == IF force THEN EmptyCache ELSE c
             entry   == [value |-> body.value, error |-> body.error, at |-> t]
         IN  [value |-> body.value, error |-> body.error,
              cache |-> IF force /\ ~kept THEN cleared
                        ELSE [cleared EXCEPT ![force] = Some(entry)],
              fetch |-> resp]

---------------------------------------------------------------------------
\* One script run: sidebar and main dashboard (lines 66-218)

StatesIn(table) == {table[i].state : i \in DOMAIN table}
DatesIn(table) == {table[i].date : i \in DOMAIN table}
MinOf(S) == CHOOSE x \in S : \A y \in S : x <= y
MaxOf(S) == CHOOSE x \in S : \A y \in S : y <= x

\* the widgets' values on the first run of a session: the first state of
\* sorted(unique()) and the full date range (lines 81-90)
DefaultSelection(d) ==
    IF d = None THEN [state |-> "", start |-> 0, end |-> 0]
    ELSE [state |-> StateNames[MinOf({StateRank(s) : s \in StatesIn(d[1])})],
          start |-> MinOf(DatesIn(d[1])), end |-> MaxOf(DatesIn(d[1]))]

\* the values the widgets can hold on a later run, with dates picked in D
Selections(d, D) ==
    IF d = None THEN {[state |-> "", start |-> 0, end |-> 0]}
    ELSE [state : StatesIn(d[1]), start : D, end : D]

\* the filter with the end of the range excluded
StateDataOpenEnd(table, state, start, end) ==
    SelectSeq(table, LAMBDA r : r.state = state /\ r.date >= start /\ r.date < end)

\* lines 119-123
StateData(table, state, start, end) ==
    SelectSeq(table, LAMBDA r : r.state = state /\ r.date >= start /\ r.date <= end)

\* DataFrame.dropna(): the rows with no null column; index is never null here
DropNa(rows) == SelectSeq(rows, LAMBDA r : ~IsNull(r.inflation_yoy))

\* state_data.dropna().iloc[-1]; IndexError on an empty frame
Latest(sd) == LET dn == DropNa(sd) IN IF dn = <<>> THEN None ELSE Some(dn[Len(dn)])

\* sort_values(by one column), kind='quicksort': not stable, so every order of
\* the rows that is ascending in the key is a possible result
RECURSIVE SortsFrom(_, _, _)
SortsFrom(s, keys, I) ==
    IF I = {} THEN {<<>>}
    ELSE LET m == MinOf({keys[i] : i \in I})
         IN  UNION {{<<s[i]>> \o t : t \in SortsFrom(s, keys, I \ {i})} :
                        i \in {j \in I : keys[j] = m}}

UnstableSorts(s, keys) == SortsFrom(s, keys, DOMAIN s)

\* groupby('state').head(1): the first row of each state
HeadPerGroup(rows) ==
    SelectSeq(rows, LAMBDA r : \A i \in DOMAIN rows :
                                   rows[i].state = r.state => rows[i].date >= r.date)

\* groupby('state').tail(1): the last row of each state, in the frame's order
TailPerGroup(rows) ==
    LET last == {i \in DOMAIN rows : \A j \in DOMAIN rows : j > i => rows[j].state # rows[i].state}
        F[i \in 0..Len(rows)] ==
            IF i = 0 THEN <<>>
            ELSE IF i \in last THEN Append(F[i - 1], rows[i]) ELSE F[i - 1]
    IN  F[Len(rows)]

\* lines 176-182: the possible values of latest_state
LatestStates(table) ==
    LET dn == DropNa(table)
        byDate == UnstableSorts(dn, [i \in DOMAIN dn |-> dn[i].date])
    IN  UNION {LET t == TailPerGroup(b)
               IN  UnstableSorts(t, [i \in DOMAIN t |-> t[i].inflation_yoy[1]]) :
               b \in byDate}

Rankings(d) == IF d = None THEN {<<>>} ELSE LatestStates(d[1])

\* What a run renders with session table d, the widgets at sel, and rank the
\* value latest_state takes if the run gets that far.
Render(d, loadError, sel, rank) ==
    LET base == [button |-> TRUE, load_error |-> loadError, failed_msg |-> d = None,
                 state |-> sel.state, start |-> sel.start, end |-> sel.end,
                 warning |-> "none", outcome |-> "complete",
                 state_data |-> <<>>, latest |-> None, latest_state |-> <<>>,
                 charts |-> FALSE]
    IN  IF d = None
        THEN [base EXCEPT !.warning = "loading", !.outcome = "stopped"]
        ELSE LET sd == StateData(d[1], sel.state, sel.start, sel.end)
             IN  IF sd = <<>>
                 THEN [base EXCEPT !.warning = "nodata", !.outcome = "stopped"]
                 ELSE IF Latest(sd) = None
                 THEN [base EXCEPT !.outcome = "exception", !.state_data = sd]
                 ELSE [base EXCEPT !.state_data = sd, !.latest = Latest(sd),
                                   !.latest_state = rank, !.charts = TRUE]

NoPage == Render(None, FALSE, DefaultSelection(None), <<>>)

---------------------------------------------------------------------------
\* The steps

\* dates the user picks in the date-range widget
SessionDates == {1, Periods + 1}
PickDates == {1} \cup (Periods..MaxDate)

HalfTTL == TTL \div 2

\* lines 56-57 run on every run of the script
AlwaysInit(lr) == TRUE

\* line 55: 'last_refresh' not in st.session_state
SessionInitNeeded(lr) == lr = None

\* One run of the script from the top, on session state (lr, d): lines 55-57
\* when the session is new, then the sidebar and the dashboard.  The widgets
\* hold their defaults on a session's first run and any value in D later.
ScriptRun(lr, d, D, ev) ==
    \E resp \in (IF SessionInitNeeded(lr) THEN Responses ELSE {"none"}) :
        \E r \in {IF SessionInitNeeded(lr)
                  THEN LoadData(cache, now, FALSE, resp, RawCsv(csv), TRUE)
                  ELSE [value |-> d, error |-> FALSE, cache |-> cache, fetch |-> "none"]} :
            /\ last_refresh' = IF SessionInitNeeded(lr) THEN Some(now) ELSE lr
            /\ df' = r.value
            /\ cache' = r.cache
            /\ fetch' = r.fetch
            /\ event' = ev
            /\ \E sel \in (IF lr = None THEN {DefaultSelection(r.value)}
                           ELSE Selections(r.value, D)),
                  rank \in Rankings(r.value) :
                   page' = Render(r.value, r.error, sel, rank)
            /\ UNCHANGED <<csv, now>>

\* A new browser session starts with an empty session state.
FirstRun == event = "none" /\ ScriptRun(None, None, {}, "first")
Reload == event # "none" /\ ScriptRun(None, None, {}, "first")

\* A rerun of the script after a widget change.
Rerun == last_refresh # None /\ ScriptRun(last_refresh, df, SessionDates, "rerun")
RerunData == last_refresh # None /\ ScriptRun(last_refresh, df, PickDates, "rerun")

\* A click on "Refresh Data": refresh_data (lines 60-64), whose st.rerun()
\* runs the script again at once, so what load_data drew is replaced by that
\* run's page.
RefreshClick ==
    /\ last_refresh # None
    /\ \E resp \in Responses, kept \in BOOLEAN :
           \E r \in {LoadData(cache, now, TRUE, resp, RawCsv(csv), kept)} :
               /\ df' = r.value
               /\ last_refresh' = Some(now)
               /\ cache' = r.cache
               /\ fetch' = r.fetch
               /\ \E sel \in Selections(r.value, SessionDates), rank \in Rankings(r.value) :
                      page' = Render(r.value, FALSE, sel, rank)
    /\ event' = "click"
    /\ UNCHANGED <<csv, now>>

\* Time passes.
Tick ==
    /\ now < MaxTicks * HalfTTL
    /\ now' = now + HalfTTL
    /\ UNCHANGED <<csv, cache, df, last_refresh, event, fetch, page>>

Start ==
    /\ now = 0
    /\ cache = EmptyCache
    /\ df = None
    /\ last_refresh = None
    /\ event = "none"
    /\ fetch = "none"
    /\ page = NoPage

Init == csv \in SessionCsvs /\ Start
Next == FirstRun \/ Reload \/ Rerun \/ RefreshClick \/ Tick
Spec == Init /\ [][Next]_vars

InitData == csv \in AllCsvs /\ Start
NextData == FirstRun \/ RerunData
SpecData == InitData /\ [][NextData]_vars

---------------------------------------------------------------------------
\* Properties of the table, the filter and the ranking (checked under SpecData)

Table == df[1]
Loaded == df # None
NonNull(r) == ~IsNull(r.inflation_yoy)

\* the rows of state s in the table
RowsOf(table, s) == {r \in Range(table) : r.state = s}

\* the 1-based position of row r in its state's sequence ordered by date
Position(table, r) == Cardinality({q \in RowsOf(table, r.state) : q.date < r.date}) + 1

\* the row at position i of the sequence of state s ordered by date
RowAt(table, s, i) == CHOOSE r \in RowsOf(table, s) : Position(table, r) = i

\* C1: in the table load_data returns, a row among the first 12 of its state
\* (by date) has a null inflation_yoy, and any later row has
\* (index[i] / index[i-12] - 1) * 100, i-12 counted in rows of that state.
C1_InflationByRowOffset ==
    Loaded =>
        \A r \in Range(Table) :
            LET i == Position(Table, r)
            IN  IF i <= Periods THEN IsNull(r.inflation_yoy)
                ELSE r.inflation_yoy =
                        Some(Pct(r.index, RowAt(Table, r.state, i - Periods).index))

\* a table of two states, the first with a missing month and a row whose
\* inflation_yoy is neither null nor zero
C1_Witness ==
    /\ Loaded
    /\ StatesIn(Table) = States
    /\ \E r \in Range(Table) :
           /\ NonNull(r) /\ r.inflation_yoy[1] # 0
           /\ r.date # Position(Table, r)

AbsentState == "Perlis"

InFilter(r, state, start, end) == r.state = state /\ start <= r.date /\ r.date <= end

\* view is exactly the rows of the table selected by (state, start, end), in
\* ascending date order
FilterOK(table, state, start, end, view) ==
    /\ \A i \in DOMAIN view : view[i] \in Range(table) /\ InFilter(view[i], state, start, end)
    /\ \A r \in Range(table) : InFilter(r, state, start, end) => r \in Range(view)
    /\ \A i, j \in DOMAIN view : i < j => view[i].date < view[j].date

\* C2: for every state (one absent from the table too) and every start and end
\* (reversed too) the filtered view is exactly the rows of that state with
\* start <= date <= end, in ascending date order, empty when there is none; and
\* the view a run computed is the one of its selection.  The first conjunct is
\* evaluated once per table, at the run that loaded it.
C2_FilterExact ==
    Loaded =>
        /\ event = "first" =>
               \A s \in States \cup {AbsentState}, a \in 0..(MaxDate + 1), b \in 0..(MaxDate + 1) :
                   /\ FilterOK(Table, s, a, b, StateData(Table, s, a, b))
                   /\ (s \notin StatesIn(Table) \/ a > b) => StateData(Table, s, a, b) = <<>>
        /\ FilterOK(Table, page.state, page.start, page.end, page.state_data)

\* a run whose view holds some but not all rows of the selected state, both
\* bounds cutting rows off and both bounds met by a row
C2_Witness ==
    /\ Loaded
    /\ Len(page.state_data) > 1
    /\ page.state_data[1].date = page.start
    /\ page.state_data[Len(page.state_data)].date = page.end
    /\ \E r \in RowsOf(Table, page.state) : r.date < page.start
    /\ \E r \in RowsOf(Table, page.state) : r.date > page.end
    /\ StatesIn(Table) = States

\* the rows the headline metric chooses among
Qualifying == {r \in Range(Table) : InFilter(r, page.state, page.start, page.end) /\ NonNull(r)}

\* C5: when no row of the selection has a non-null inflation_yoy, the run
\* shows the no-data state and stops before the metric and the charts; it does
\* not end in an exception.
C5_NoDataState ==
    (Loaded /\ Qualifying = {}) =>
        /\ page.outcome = "stopped"
        /\ page.warning = "nodata"
        /\ ~page.charts

\* C8: the row of the headline metric is a row of the selected state, inside
\* the selected range, with a non-null inflation_yoy, and no such row has a
\* later date.
C8_LatestIsLastQualifying ==
    (Loaded /\ page.latest # None) =>
        /\ page.latest[1] \in Qualifying
        /\ \A r \in Qualifying : r.date <= page.latest[1].date

\* a run with two qualifying rows, another one after the range, and null rows
\* inside the range
C8_Witness ==
    /\ Loaded
    /\ page.latest # None
    /\ Cardinality(Qualifying) > 1
    /\ \E r \in Range(page.state_data) : ~NonNull(r)
    /\ StatesIn(Table) = States

\* ls is a ranking of the table: one row per state at most, each the last by
\* date of its state among the rows with a non-null inflation_yoy of the whole
\* table, ascending by inflation_yoy
RankingOK(table, ls) ==
    /\ \A i, j \in DOMAIN ls : i # j => ls[i].state # ls[j].state
    /\ \A i \in DOMAIN ls :
           /\ ls[i] \in Range(table) /\ NonNull(ls[i])
           /\ \A r \in RowsOf(table, ls[i].state) : NonNull(r) => r.date <= ls[i].date
    /\ \A i, j \in DOMAIN ls : i < j => ls[i].inflation_yoy[1] <= ls[j].inflation_yoy[1]
    /\ (\A r \in Range(table) : ~NonNull(r)) => ls = <<>>

\* C6: every value latest_state can take is such a ranking of the whole
\* session table, whatever the selected state and date range, and so is the
\* one a run rendered.
C6_RankingOverWholeTable ==
    Loaded =>
        /\ \A ls \in LatestStates(Table) : RankingOK(Table, ls)
        /\ page.outcome = "complete" => RankingOK(Table, page.latest_state)

\* a rendered ranking of two states with different values, one of them with
\* several non-null rows, while the selection leaves the last rows out
C6_Witness ==
    /\ Loaded
    /\ page.outcome = "complete"
    /\ Len(page.latest_state) = 2
    /\ page.latest_state[1].inflation_yoy[1] < page.latest_state[2].inflation_yoy[1]
    /\ \E i \in 1..2 : page.latest_state[i].date > page.end
    /\ \E i \in 1..2 : \E r \in RowsOf(Table, page.latest_state[i].state) :
           NonNull(r) /\ r.date < page.latest_state[i].date

\* C9: two rows of the rendered ranking with the same inflation_yoy are in the
\* order of their state names.
C9_TiesByStateName ==
    (Loaded /\ page.outcome = "complete") =>
        \A i, j \in DOMAIN page.latest_state :
            (i < j /\ page.latest_state[i].inflation_yoy = page.latest_state[j].inflation_yoy)
                => NameLess(page.latest_state[i].state, page.latest_state[j].state)

---------------------------------------------------------------------------
\* Properties of the session and the cache (checked under Spec)

Failed(resp) == resp \in {"http_error", "timeout"}

\* C3: a refresh whose fetch fails shows an error and leaves
\* st.session_state.df as it was.
C3_FailedRefreshKeepsTable ==
    [][(event' = "click" /\ Failed(fetch'))
           => ((page'.failed_msg \/ page'.load_error) /\ df' = df)]_vars

C10_RerunLeavesSession ==
    [][event' = "rerun" =>
           /\ fetch' = "none"
           /\ df' = df
           /\ last_refresh' = last_refresh
           /\ cache' = cache]_vars

\* a rerun made after the cached results have expired, with a table loaded
C10_Witness ==
    /\ event = "rerun"
    /\ Loaded
    /\ page.outcome = "complete"
    /\ now >= last_refresh[1] + TTL

====
